---- MODULE Spec2Model ----
(***************************************************************************)
(* Model of quick_start/v1/05_OpenAI_parameters.ipynb: a notebook kernel   *)
(* that runs the notebook's code cells one at a time.  Every cell builds   *)
(* chat-completion requests, sends each with                               *)
(* client.chat.completions.create(...), waits for the answer and prints.   *)
(* The remote service is not part of the notebook: it answers a request    *)
(* either with a response or with an error, and the texts it generates are *)
(* its own choice.                                                         *)
(*                                                                         *)
(* Scales: temperature is in hundredths (0.75 is 75), presence_penalty in  *)
(* tenths (0.5 is 5), so that the notebook's floats are integers here.     *)
(***************************************************************************)
EXTENDS Integers, Sequences, FiniteSets

VARIABLES
    client,                  \* the AzureOpenAI client object of cell 1
    CHAT_COMPLETIONS_MODEL,  \* the deployment name of cell 1
    SEED,                    \* the global SEED of cell 1
    pc,                      \* where the kernel is: idle, loop, awaiting, got, done, raised
    frame,                   \* the running cell or function: its name, arguments and loop index
    inflight,                \* requests sent to the endpoint and not yet answered
    response,                \* the value bound to the name `response`
    err,                     \* the exception that ended the cell, "none" when there is none
    out,                     \* the output area of the running cell: the printed lines, in order
    sent,                    \* log: every request the running cell handed to the endpoint
    answers                  \* log: every response the endpoint returned to the running cell

cfgvars == <<client, CHAT_COMPLETIONS_MODEL, SEED>>
vars == <<client, CHAT_COMPLETIONS_MODEL, SEED, pc, frame, inflight, response, err,
          out, sent, answers>>

(***************************************************************************)
(* Bounds of the model.                                                    *)
(***************************************************************************)
\* call_openai is called with num_times up to MaxTimes
MaxTimes == 3
\* the n cell asks for 1..MaxN completions (the notebook's cell has n=2, its text
\* gives n = 3 as the example)
MaxN == 3

(***************************************************************************)
(* Values of the environment.                                              *)
(***************************************************************************)
Endpoints == {"https://res.openai.azure.com"}
Keys == {"key"}
Deployments == {"gpt-deployment"}
\* the texts the service can generate
Contents == {"text A", "text B"}
\* the prompts call_openai is called with
Prompts == {"The best pet is a ", "Another prompt"}
\* the temperatures call_openai is called with, in hundredths
Temperatures == {0, 75, 100}
\* the two ways a remote call fails
ErrorKinds == {"RemoteServiceError", "InvalidParameterError"}

(***************************************************************************)
(* Constants of the notebook.                                              *)
(***************************************************************************)
API_VERSION == "2024-02-15-preview"
SEED_VALUE == 123
SYSTEM_PROMPT == "You are a helpful assistant."
\* temperature=0.75, the default of call_openai's parameter, in hundredths
TEMPERATURE_DEFAULT == 75
\* max_tokens=60 of call_openai, the n cell and the presence_penalty wrapper
MAX_TOKENS_60 == 60
CELL_PROMPT == "The best pet is a"
N_CELL_PROMPT == "The best pet is a "
\* penalties = [16, 32, 60, 100] of the max_tokens cell
MAX_TOKENS_LIST == <<16, 32, 60, 100>>
\* penalties = [0, 0.5, 1.0, 1.5, 2.0] of the presence_penalty cell, in tenths
PRESENCE_LIST == <<0, 5, 10, 15, 20>>

\* None, for the name `response` before any response is bound to it
None == [choices |-> <<>>]
\* an optional argument: <<>> when the caller omits it, <<v>> when it passes v
Optional(S) == {<<>>} \cup {<<v>> : v \in S}
\* the value of a parameter with default d
Default(arg, d) == IF arg = <<>> THEN d ELSE arg[1]

(***************************************************************************)
(* The request bodies, as each call site builds them.                      *)
(***************************************************************************)
\* mutant: the messages keep the conversation, every earlier answer of the run
\* is sent along as an assistant message
Messages_with_history(prompt) ==
    << [role |-> "system", content |-> SYSTEM_PROMPT] >>
    \o [j \in 1..Len(answers) |->
          [role |-> "assistant", content |-> answers[j].choices[1].message.content]]
    \o << [role |-> "user", content |-> prompt] >>

\* messages = [{"role":"system", ...}, {"role":"user","content": prompt}]
Messages(prompt) ==
    << [role |-> "system", content |-> SYSTEM_PROMPT],
       [role |-> "user", content |-> prompt] >>

\* mutant: the seed differs from one request of the loop to the next
call_openai_request_varying_seed(prompt, temperature, use_seed) ==
    IF use_seed
    THEN [model |-> CHAT_COMPLETIONS_MODEL, messages |-> Messages(prompt),
          max_tokens |-> MAX_TOKENS_60, seed |-> SEED + Len(sent),
          temperature |-> temperature]
    ELSE [model |-> CHAT_COMPLETIONS_MODEL, messages |-> Messages(prompt),
          max_tokens |-> MAX_TOKENS_60, temperature |-> temperature]

\* mutant: the branch with the seed does not pass the temperature on
call_openai_request_seed_without_temperature(prompt, temperature, use_seed) ==
    IF use_seed
    THEN [model |-> CHAT_COMPLETIONS_MODEL, messages |-> Messages(prompt),
          max_tokens |-> MAX_TOKENS_60, seed |-> SEED]
    ELSE [model |-> CHAT_COMPLETIONS_MODEL, messages |-> Messages(prompt),
          max_tokens |-> MAX_TOKENS_60, temperature |-> temperature]

\* the two create(...) calls of call_openai: with seed=SEED, or without a seed
call_openai_request(prompt, temperature, use_seed) ==
    IF use_seed
    THEN [model |-> CHAT_COMPLETIONS_MODEL, messages |-> Messages(prompt),
          max_tokens |-> MAX_TOKENS_60, seed |-> SEED, temperature |-> temperature]
    ELSE [model |-> CHAT_COMPLETIONS_MODEL, messages |-> Messages(prompt),
          max_tokens |-> MAX_TOKENS_60, temperature |-> temperature]

\* the create(...) call of call_openai_with_max_tokens
call_openai_with_max_tokens_request(max_tokens) ==
    [model |-> CHAT_COMPLETIONS_MODEL, messages |-> Messages(CELL_PROMPT),
     max_tokens |-> max_tokens]

\* mutant: the n cell's request leaves n out
n_cell_request_without_n(n) ==
    [model |-> CHAT_COMPLETIONS_MODEL, messages |-> Messages(N_CELL_PROMPT),
     max_tokens |-> MAX_TOKENS_60]

\* the create(...) call of the n cell
n_cell_request(n) ==
    [model |-> CHAT_COMPLETIONS_MODEL, messages |-> Messages(N_CELL_PROMPT),
     max_tokens |-> MAX_TOKENS_60, n |-> n]

\* the create(...) call of call_openai_with_presence_penalty
call_openai_with_presence_penalty_request(presence_penalty) ==
    [model |-> CHAT_COMPLETIONS_MODEL, messages |-> Messages(CELL_PROMPT),
     max_tokens |-> MAX_TOKENS_60, presence_penalty |-> presence_penalty]

(***************************************************************************)
(* Printed lines.                                                          *)
(***************************************************************************)
\* print(text)
Text(t) == [kind |-> "text", text |-> t]
\* print(index, text)
Indexed(j, t) == [kind |-> "indexed", index |-> j, text |-> t]
\* print(f"<label>: {value}\n")
Header(label, v) == [kind |-> "header", label |-> label, value |-> v]
\* print("\n" + "-"*80 + "\n")
Rule == [kind |-> "rule"]

\* response.choices[j].message.content, j counted from 0 as in the notebook
ChoiceContent(r, j) == r.choices[j + 1].message.content

(***************************************************************************)
(* The remote service.                                                     *)
(***************************************************************************)
\* the number of completions a request asks for: its n, 1 when it has none
Completions(req) == IF "n" \in DOMAIN req THEN req.n ELSE 1

\* the responses the service can give to a request: one choice per completion
\* asked for, each with a text of the service's choosing
Responses(req) ==
    { [choices |-> [j \in 1..Completions(req) |-> [message |-> [content |-> f[j]]]]] :
        f \in [1..Completions(req) -> Contents] }

(***************************************************************************)
(* Cell 1: the client, the deployment name and the seed.                   *)
(***************************************************************************)
Init ==
    /\ client \in [azure_endpoint : Endpoints, api_key : Keys, api_version : {API_VERSION}]
    /\ CHAT_COMPLETIONS_MODEL \in Deployments
    /\ SEED = SEED_VALUE
    /\ pc = "idle"
    /\ frame = [op |-> "none"]
    /\ inflight = <<>>
    /\ response = None
    /\ err = "none"
    /\ out = <<>>
    /\ sent = <<>>
    /\ answers = <<>>

\* the kernel runs no cell: none was run yet, or the last one returned or raised
KernelIdle == pc \in {"idle", "done", "raised"}

\* a cell starts: its output area is empty and nothing of the last run is left.
\* `response` is a local of the wrappers and of call_openai, unbound when they are
\* entered; the n cell binds the global of that name before it reads it, so what
\* an earlier run left there is never read
Begin(f) ==
    /\ KernelIdle
    /\ frame' = f
    /\ pc' = "loop"
    /\ out' = <<>>
    /\ sent' = <<>>
    /\ answers' = <<>>
    /\ err' = "none"
    /\ response' = None
    /\ UNCHANGED inflight

\* client.chat.completions.create(**req): the request goes to the endpoint and
\* the caller waits for the answer
Create(req) ==
    /\ inflight' = Append(inflight, req)
    /\ sent' = Append(sent, req)
    /\ pc' = "awaiting"

(***************************************************************************)
(* call_openai(num_times, prompt, temperature=0.75, use_seed=False)        *)
(***************************************************************************)
\* `given` keeps the keyword arguments as the caller wrote them (<<>>: left out)
call_openai_start(num_times, prompt, temperature, use_seed) ==
    /\ Begin([op |-> "call_openai", num_times |-> num_times, prompt |-> prompt,
              temperature |-> Default(temperature, TEMPERATURE_DEFAULT),
              use_seed |-> Default(use_seed, FALSE),
              given |-> [temperature |-> temperature, use_seed |-> use_seed],
              i |-> 0])
    /\ UNCHANGED cfgvars

\* mutant: the request is sent without waiting for its answer
call_openai_create_async ==
    /\ pc = "loop" /\ frame.op = "call_openai"
    /\ frame.i < frame.num_times
    /\ inflight' = Append(inflight, call_openai_request(frame.prompt, frame.temperature,
                                                        frame.use_seed))
    /\ sent' = Append(sent, call_openai_request(frame.prompt, frame.temperature,
                                                frame.use_seed))
    /\ frame' = [frame EXCEPT !.i = @ + 1]
    /\ UNCHANGED <<pc, response, err, out, answers>>
    /\ UNCHANGED cfgvars

\* mutant: the loop runs once more than num_times (range(num_times + 1))
call_openai_create_once_more ==
    /\ pc = "loop" /\ frame.op = "call_openai"
    /\ frame.i <= frame.num_times
    /\ Create(call_openai_request(frame.prompt, frame.temperature, frame.use_seed))
    /\ UNCHANGED <<frame, response, err, out, answers>>
    /\ UNCHANGED cfgvars

\* for i in range(num_times): the next request
call_openai_create ==
    /\ pc = "loop" /\ frame.op = "call_openai"
    /\ frame.i < frame.num_times
    /\ Create(call_openai_request(frame.prompt, frame.temperature, frame.use_seed))
    /\ UNCHANGED <<frame, response, err, out, answers>>
    /\ UNCHANGED cfgvars

\* mutant: the loop moves the global seed on after every output (SEED += 1)
call_openai_print_reseed ==
    /\ pc = "got" /\ frame.op = "call_openai"
    /\ out' = Append(out, Text(ChoiceContent(response, 0)))
    /\ frame' = [frame EXCEPT !.i = @ + 1]
    /\ pc' = "loop"
    /\ SEED' = SEED + 1
    /\ UNCHANGED <<inflight, response, err, sent, answers>>
    /\ UNCHANGED <<client, CHAT_COMPLETIONS_MODEL>>

\* print(response.choices[0].message.content)
call_openai_print ==
    /\ pc = "got" /\ frame.op = "call_openai"
    /\ out' = Append(out, Text(ChoiceContent(response, 0)))
    /\ frame' = [frame EXCEPT !.i = @ + 1]
    /\ pc' = "loop"
    /\ UNCHANGED <<inflight, response, err, sent, answers>>
    /\ UNCHANGED cfgvars

\* range(num_times) is exhausted: the function returns
call_openai_return ==
    /\ pc = "loop" /\ frame.op = "call_openai"
    /\ frame.i >= frame.num_times
    /\ pc' = "done"
    /\ UNCHANGED <<frame, inflight, response, err, out, sent, answers>>
    /\ UNCHANGED cfgvars

(***************************************************************************)
(* The max_tokens cell: call_openai_with_max_tokens(max_tokens) and the    *)
(* loop over penalties = [16, 32, 60, 100].                                *)
(***************************************************************************)
max_tokens_cell_start ==
    /\ Begin([op |-> "max_tokens_cell", penalties |-> MAX_TOKENS_LIST, i |-> 0])
    /\ UNCHANGED cfgvars

\* print(f"Max Tokens: {penalty}\n"), then call_openai_with_max_tokens(penalty)
\* up to its create(...)
max_tokens_cell_call ==
    /\ pc = "loop" /\ frame.op = "max_tokens_cell"
    /\ frame.i < Len(frame.penalties)
    /\ out' = Append(out, Header("Max Tokens", frame.penalties[frame.i + 1]))
    /\ Create(call_openai_with_max_tokens_request(frame.penalties[frame.i + 1]))
    /\ UNCHANGED <<frame, response, err, answers>>
    /\ UNCHANGED cfgvars

\* return response.choices[0].message.content; the cell prints it and the rule
max_tokens_cell_print ==
    /\ pc = "got" /\ frame.op = "max_tokens_cell"
    /\ out' = out \o <<Text(ChoiceContent(response, 0)), Rule>>
    /\ frame' = [frame EXCEPT !.i = @ + 1]
    /\ pc' = "loop"
    /\ UNCHANGED <<inflight, response, err, sent, answers>>
    /\ UNCHANGED cfgvars

max_tokens_cell_end ==
    /\ pc = "loop" /\ frame.op = "max_tokens_cell"
    /\ frame.i >= Len(frame.penalties)
    /\ pc' = "done"
    /\ UNCHANGED <<frame, inflight, response, err, out, sent, answers>>
    /\ UNCHANGED cfgvars

(***************************************************************************)
(* The n cell: one request with n completions, then                        *)
(* for index, c in enumerate(response.choices): print(index, c...content)  *)
(***************************************************************************)
n_cell_start(n) ==
    /\ Begin([op |-> "n_cell", n |-> n])
    /\ UNCHANGED cfgvars

n_cell_create ==
    /\ pc = "loop" /\ frame.op = "n_cell"
    /\ Create(n_cell_request(frame.n))
    /\ UNCHANGED <<frame, response, err, out, answers>>
    /\ UNCHANGED cfgvars

\* mutant: the choices are walked from the last to the first
Enumerate_reversed(r) ==
    [j \in 1..Len(r.choices) |->
        Indexed(j - 1, ChoiceContent(r, Len(r.choices) - j))]

\* the lines enumerate(response.choices) prints: (index, content) for index 0, 1, ...
Enumerate(r) == [j \in 1..Len(r.choices) |-> Indexed(j - 1, ChoiceContent(r, j - 1))]

n_cell_enumerate ==
    /\ pc = "got" /\ frame.op = "n_cell"
    /\ out' = out \o Enumerate(response)
    /\ pc' = "done"
    /\ UNCHANGED <<frame, inflight, response, err, sent, answers>>
    /\ UNCHANGED cfgvars

(***************************************************************************)
(* The presence_penalty cell: call_openai_with_presence_penalty(p) and the *)
(* loop over penalties = [0, 0.5, 1.0, 1.5, 2.0].                          *)
(***************************************************************************)
presence_cell_start ==
    /\ Begin([op |-> "presence_cell", penalties |-> PRESENCE_LIST, i |-> 0])
    /\ UNCHANGED cfgvars

\* mutant: the loop walks the list from its last value to its first
presence_cell_call_reversed ==
    /\ pc = "loop" /\ frame.op = "presence_cell"
    /\ frame.i < Len(frame.penalties)
    /\ out' = Append(out, Header("Presence Penalty",
                                 frame.penalties[Len(frame.penalties) - frame.i]))
    /\ Create(call_openai_with_presence_penalty_request(
                 frame.penalties[Len(frame.penalties) - frame.i]))
    /\ UNCHANGED <<frame, response, err, answers>>
    /\ UNCHANGED cfgvars

\* print(f"Presence Penalty: {penalty}\n"), then
\* call_openai_with_presence_penalty(penalty) up to its create(...)
presence_cell_call ==
    /\ pc = "loop" /\ frame.op = "presence_cell"
    /\ frame.i < Len(frame.penalties)
    /\ out' = Append(out, Header("Presence Penalty", frame.penalties[frame.i + 1]))
    /\ Create(call_openai_with_presence_penalty_request(frame.penalties[frame.i + 1]))
    /\ UNCHANGED <<frame, response, err, answers>>
    /\ UNCHANGED cfgvars

\* return response.choices[0].message.content; the cell prints it and the rule
presence_cell_print ==
    /\ pc = "got" /\ frame.op = "presence_cell"
    /\ out' = out \o <<Text(ChoiceContent(response, 0)), Rule>>
    /\ frame' = [frame EXCEPT !.i = @ + 1]
    /\ pc' = "loop"
    /\ UNCHANGED <<inflight, response, err, sent, answers>>
    /\ UNCHANGED cfgvars

presence_cell_end ==
    /\ pc = "loop" /\ frame.op = "presence_cell"
    /\ frame.i >= Len(frame.penalties)
    /\ pc' = "done"
    /\ UNCHANGED <<frame, inflight, response, err, out, sent, answers>>
    /\ UNCHANGED cfgvars

(***************************************************************************)
(* The answer to the request in flight.                                    *)
(***************************************************************************)
\* create(...) returns the service's response
create_returns ==
    /\ pc = "awaiting" /\ inflight # <<>>
    /\ \E r \in Responses(Head(inflight)) :
          /\ response' = r
          /\ answers' = Append(answers, r)
    /\ inflight' = Tail(inflight)
    /\ pc' = "got"
    /\ UNCHANGED <<frame, err, out, sent>>
    /\ UNCHANGED cfgvars

\* mutant: a failed request is sent again
create_raises_retry ==
    /\ pc = "awaiting" /\ inflight # <<>>
    /\ inflight' = Append(Tail(inflight), Head(inflight))
    /\ sent' = Append(sent, Head(inflight))
    /\ UNCHANGED <<pc, frame, response, err, out, answers>>
    /\ UNCHANGED cfgvars

\* create(...) raises: no handler is on the stack, so the cell ends with the error
create_raises ==
    /\ pc = "awaiting" /\ inflight # <<>>
    /\ \E e \in ErrorKinds : err' = e
    /\ inflight' = Tail(inflight)
    /\ pc' = "raised"
    /\ UNCHANGED <<frame, response, out, sent, answers>>
    /\ UNCHANGED cfgvars

Next ==
    \/ \E num_times \in -1..MaxTimes, prompt \in Prompts,
          temperature \in Optional(Temperatures), use_seed \in Optional(BOOLEAN) :
            call_openai_start(num_times, prompt, temperature, use_seed)
    \/ call_openai_create
    \/ call_openai_print
    \/ call_openai_return
    \/ max_tokens_cell_start
    \/ max_tokens_cell_call
    \/ max_tokens_cell_print
    \/ max_tokens_cell_end
    \/ \E n \in 1..MaxN : n_cell_start(n)
    \/ n_cell_create
    \/ n_cell_enumerate
    \/ presence_cell_start
    \/ presence_cell_call
    \/ presence_cell_print
    \/ presence_cell_end
    \/ create_returns
    \/ create_raises

Spec == Init /\ [][Next]_vars

\* the kernel executes the running cell's next statement whenever it can, and
\* every request sent is answered, with a response or with an error
LiveSpec ==
    /\ Spec
    /\ WF_vars(call_openai_create)
    /\ WF_vars(call_openai_print)
    /\ WF_vars(call_openai_return)
    /\ WF_vars(create_returns \/ create_raises)

(***************************************************************************)
(* Properties.                                                             *)
(***************************************************************************)
\* the running code is the n cell
InNCell == frame.op = "n_cell"
\* the running code is call_openai
InCallOpenai == frame.op = "call_openai"
\* the create(...) calls the running cell has made so far
Invocations ==
    CASE frame.op = "none" -> 0
      [] frame.op = "n_cell" -> IF pc = "loop" THEN 0 ELSE 1
      [] OTHER -> IF pc \in {"awaiting", "got", "raised"} THEN frame.i + 1 ELSE frame.i

\* C1: a successful request sent with n = k is answered with exactly k
\* completions, and the loop over enumerate(response.choices) prints exactly k
\* lines, carrying the indexes 0..k-1 in this order.
C1_ExactlyNCompletions ==
    InNCell =>
      /\ \A j \in 1..Len(sent) : "n" \in DOMAIN sent[j] /\ sent[j].n = frame.n
      /\ pc \in {"got", "done"} => Len(response.choices) = frame.n
      /\ pc = "done" =>
           /\ Len(out) = frame.n
           /\ \A j \in 1..Len(out) : out[j].kind = "indexed" /\ out[j].index = j - 1

C1_Witness ==
    /\ InNCell /\ pc = "done" /\ frame.n = 3
    /\ Len(out) = 3 /\ out[3].index = 2

\* C2: every create(...) call is exactly one network call; when it fails the
\* error ends the cell at once: the request is not sent again, nothing more is
\* printed, and no further request of the cell is issued (the next request is
\* the first one of a cell started afterwards).
C2_FailurePropagatesNoRetry ==
    [][ /\ Len(sent') = Invocations'
        /\ pc' = "raised" =>
             /\ pc = "awaiting"
             /\ err' \in ErrorKinds
             /\ inflight' = <<>>
             /\ sent' = sent /\ out' = out /\ frame' = frame
        /\ pc = "raised" => pc' = "loop" /\ sent' = <<>> ]_vars

C2_Witness ==
    /\ InCallOpenai /\ pc = "raised" /\ err = "RemoteServiceError"
    /\ frame.num_times = 3 /\ frame.i = 1
    /\ Len(sent) = 2 /\ Len(out) = 1

\* C3: at most one request is in flight at any time, and a request is only in
\* flight while the kernel waits for it: every request sent earlier has been
\* answered, with a response or with the error that ended the cell.
C3_Sequential ==
    /\ Len(inflight) <= 1
    /\ pc # "awaiting" => inflight = <<>>
    /\ Len(sent) = Len(answers) + Len(inflight) + (IF pc = "raised" THEN 1 ELSE 0)

C3_Witness ==
    /\ pc = "awaiting" /\ Len(inflight) = 1
    /\ Len(sent) = 3 /\ Len(answers) = 2

\* C6 as claimed: with seed=SEED and temperature=0 every output of one
\* call_openai run equals the first.
C6_ByteIdenticalOutputs ==
    (InCallOpenai /\ frame.use_seed /\ frame.temperature = 0) =>
        \A j \in 1..Len(out) : out[j] = out[1]

\* C6, amended: with use_seed=True and temperature=0 every request of one
\* call_openai run is identical to the first (same model, messages,
\* max_tokens, seed=SEED=123 and temperature=0), and every output is the first
\* choice of the response to its request; so two outputs differ only where the
\* service answered identical requests differently.
C6_IdenticalSeededRequests ==
    (InCallOpenai /\ frame.use_seed /\ frame.temperature = 0) =>
        /\ \A j \in 1..Len(sent) :
              /\ sent[j] = sent[1]
              /\ "seed" \in DOMAIN sent[j] /\ sent[j].seed = 123
              /\ sent[j].temperature = 0
        /\ \A j \in 1..Len(out) :
              /\ out[j] = [kind |-> "text", text |-> answers[j].choices[1].message.content]
              /\ answers[j] = answers[1] => out[j] = out[1]

C6_Witness ==
    /\ InCallOpenai /\ frame.use_seed /\ frame.temperature = 0
    /\ pc = "done" /\ frame.num_times = 3
    /\ Len(sent) = 3 /\ Len(out) = 3
    /\ out[2] # out[1] /\ out[3] = out[1]

\* C7: the name `response` is bound to what the service returned, and the
\* j-th line the n cell prints is index j-1 with the content of the j-th choice
\* of that response: nothing is reordered, dropped or printed twice.
C7_OrderPreserved ==
    /\ pc = "got" => response = answers[Len(answers)]
    /\ (InNCell /\ pc = "done") =>
          /\ Len(out) = Len(answers[1].choices)
          /\ \A j \in 1..Len(out) :
                out[j] = [kind |-> "indexed", index |-> j - 1,
                          text |-> answers[1].choices[j].message.content]

C7_Witness ==
    /\ InNCell /\ pc = "done" /\ Len(out) = 3
    /\ out[1].text = "text B" /\ out[2].text = "text A" /\ out[3].text = "text A"

\* C8: no step changes the client configuration, the deployment name or SEED;
\* they keep the values cell 1 gave them.
C8_ConfigReadOnly ==
    [][ /\ client' = client
        /\ CHAT_COMPLETIONS_MODEL' = CHAT_COMPLETIONS_MODEL
        /\ SEED' = SEED
        /\ SEED' = 123
        /\ client'.api_version = "2024-02-15-preview" ]_vars

C8_Witness ==
    /\ pc = "raised" /\ Len(answers) = 2
    /\ SEED = 123 /\ client.api_version = "2024-02-15-preview"

\* the user prompt of the running code: call_openai's argument, the literal of
\* the n cell, the literal of the two wrappers
UserPrompt ==
    CASE frame.op = "call_openai" -> frame.prompt
      [] frame.op = "n_cell" -> "The best pet is a "
      [] OTHER -> "The best pet is a"

\* C9: every request, also one issued after earlier requests were answered,
\* carries exactly two messages: the fixed system prompt and the user prompt
\* of its call; no text of an earlier response is in it.
C9_StatelessRequests ==
    \A j \in 1..Len(sent) :
        /\ Len(sent[j].messages) = 2
        /\ sent[j].messages[1] = [role |-> "system", content |-> "You are a helpful assistant."]
        /\ sent[j].messages[2] = [role |-> "user", content |-> UserPrompt]
        /\ \A m \in 1..Len(sent[j].messages) : sent[j].messages[m].content \notin Contents

C9_Witness ==
    /\ frame.op = "presence_cell" /\ pc = "awaiting"
    /\ Len(sent) = 3 /\ Len(answers) = 2
    /\ answers[1] # answers[2]

\* the number of requests call_openai(num_times, ...) is to issue
Expected == IF frame.num_times > 0 THEN frame.num_times ELSE 0

\* C10: call_openai(num_times, ...) ends, returning or with the error of a
\* failed request; when it returns it has issued exactly num_times requests
\* (none when num_times <= 0) and printed exactly num_times outputs, the i-th
\* the first choice of the i-th response; every output is printed before the
\* next request is issued.
C10_CallOpenaiTerminates ==
    /\ [](InCallOpenai =>
            /\ pc = "done" => Len(sent) = Expected /\ Len(out) = Expected
            /\ Len(sent) <= Expected
            /\ \A j \in 1..Len(out) :
                  out[j] = [kind |-> "text", text |-> answers[j].choices[1].message.content]
            /\ pc \in {"awaiting", "raised"} => Len(out) = Len(sent) - 1
            /\ pc \in {"loop", "done"} => Len(out) = Len(sent)
            /\ pc = "raised" => Len(answers) < Expected)
    /\ (InCallOpenai /\ pc = "loop") ~> (InCallOpenai /\ pc \in {"done", "raised"})

C10_Witness ==
    /\ InCallOpenai /\ pc = "done" /\ frame.num_times = 3
    /\ Len(sent) = 3 /\ Len(out) = 3

C10_WitnessNone ==
    /\ InCallOpenai /\ pc = "done" /\ frame.num_times = -1
    /\ sent = <<>> /\ out = <<>>

\* the request call_openai sends when it is not to use the seed: the model, the
\* two messages, max_tokens=60 and the temperature argument, 0.75 when the
\* caller gave none
Unseeded ==
    [model |-> CHAT_COMPLETIONS_MODEL,
     messages |-> << [role |-> "system", content |-> "You are a helpful assistant."],
                     [role |-> "user", content |-> frame.prompt] >>,
     max_tokens |-> 60,
     temperature |-> IF frame.given.temperature = <<>> THEN 75
                     ELSE frame.given.temperature[1]]

\* C11: within one call_openai run the seed is all or nothing: with
\* use_seed=True every request carries seed=SEED=123, with use_seed=False (also
\* when it is left out) no request has a seed field; in both cases the request
\* carries max_tokens=60 and the temperature argument (0.75 when not given),
\* and without its seed field a seeded request is the unseeded one.
C11_SeedAllOrNothing ==
    InCallOpenai =>
        \A j \in 1..Len(sent) :
            /\ frame.given.use_seed = <<TRUE>> =>
                  /\ DOMAIN sent[j] = DOMAIN Unseeded \cup {"seed"}
                  /\ sent[j].seed = 123
            /\ frame.given.use_seed \in {<<>>, <<FALSE>>} => DOMAIN sent[j] = DOMAIN Unseeded
            /\ \A k \in DOMAIN Unseeded : k \in DOMAIN sent[j] /\ sent[j][k] = Unseeded[k]

C11_Witness ==
    /\ InCallOpenai /\ pc = "done"
    /\ frame.given.use_seed = <<TRUE>> /\ frame.given.temperature = <<>>
    /\ Len(sent) = 3
    /\ sent[3].seed = 123 /\ sent[3].temperature = 75 /\ sent[3].max_tokens = 60

C11_WitnessUnseeded ==
    /\ InCallOpenai /\ pc = "done"
    /\ frame.given.use_seed = <<>> /\ frame.given.temperature = <<0>>
    /\ Len(sent) = 3
    /\ "seed" \notin DOMAIN sent[3] /\ sent[3].temperature = 0

\* the running code is one of the two cells that drive a single-parameter wrapper
InWrapperCell == frame.op \in {"max_tokens_cell", "presence_cell"}
\* the values the running wrapper cell lists, and the label of its headers
Listed == IF frame.op = "max_tokens_cell" THEN <<16, 32, 60, 100>> ELSE <<0, 5, 10, 15, 20>>
Label == IF frame.op = "max_tokens_cell" THEN "Max Tokens" ELSE "Presence Penalty"
\* the request the wrapper sends for the listed value v
WrapperRequest(v) ==
    IF frame.op = "max_tokens_cell"
    THEN [model |-> CHAT_COMPLETIONS_MODEL,
          messages |-> << [role |-> "system", content |-> "You are a helpful assistant."],
                          [role |-> "user", content |-> "The best pet is a"] >>,
          max_tokens |-> v]
    ELSE [model |-> CHAT_COMPLETIONS_MODEL,
          messages |-> << [role |-> "system", content |-> "You are a helpful assistant."],
                          [role |-> "user", content |-> "The best pet is a"] >>,
          max_tokens |-> 60, presence_penalty |-> v]

\* C12: call_openai_with_max_tokens and call_openai_with_presence_penalty send
\* a request without n and give back one string, the content of choices[0] of
\* the response; the loop of each cell calls its wrapper once per listed value,
\* in list order, and prints the value's header before the request is sent,
\* then the completion, then the rule.
C12_WrappersOnePerValue ==
    InWrapperCell =>
        /\ Len(sent) <= Len(Listed)
        /\ pc = "done" => Len(sent) = Len(Listed)
        /\ \A j \in 1..Len(sent) :
              /\ "n" \notin DOMAIN sent[j]
              /\ sent[j] = WrapperRequest(Listed[j])
              /\ Len(out) >= 3 * (j - 1) + 1
              /\ out[3 * (j - 1) + 1] = [kind |-> "header", label |-> Label, value |-> Listed[j]]
        /\ Len(out) = 3 * frame.i + (IF pc \in {"awaiting", "got", "raised"} THEN 1 ELSE 0)
        /\ \A j \in 1..frame.i :
              /\ Len(answers[j].choices) = 1
              /\ out[3 * (j - 1) + 2] =
                    [kind |-> "text", text |-> answers[j].choices[1].message.content]
              /\ out[3 * (j - 1) + 3] = [kind |-> "rule"]

C12_Witness ==
    /\ frame.op = "presence_cell" /\ pc = "done"
    /\ Len(sent) = 5 /\ Len(out) = 15
    /\ sent[2].presence_penalty = 5 /\ sent[5].presence_penalty = 20
    /\ out[4].value = 5 /\ out[5].text = "text B" /\ out[2].text = "text A"

C12_WitnessMaxTokens ==
    /\ frame.op = "max_tokens_cell" /\ pc = "done"
    /\ Len(sent) = 4 /\ Len(out) = 12
    /\ sent[1].max_tokens = 16 /\ sent[4].max_tokens = 100

====
